---- MODULE Spec2Model ----
(***************************************************************************)
(* Password hashing service (pwdhashservice.go): the three HTTP handlers   *)
(* /hash, /stats and /shutdown, the in-flight counter, the two statistics  *)
(* fields with their two mutexes, the shutdown flag and the busy-wait      *)
(* drain.  Every request is one goroutine; a step of the model is one      *)
(* access to shared memory (or one mutex operation) of one goroutine.      *)
(* Durations are counted in microseconds.                                  *)
(***************************************************************************)
EXTENDS Integers, Sequences, FiniteSets, TLC

\* Number of requests the transport delivers in one run.
NumReq == 2

\* What the scheduler can add to the sleep of a hash before time.Since is called.
Jitter == 1700

\* Largest arguments of the calls of getAverageHashingTimeInMillis checked alone.
MaxAvgHashed == 3
MaxAvgTime == 23

\* time.Millisecond and time.Second.  A time.Duration counts nanoseconds in 64
\* bits; the model counts microseconds, so that 5 seconds and the sums of the
\* statistics stay within the integers of the model checker.  The division by
\* time.Millisecond still truncates a remainder.
Millisecond == 1000
Second == 1000000

\* time.Sleep(5 * time.Second)
SleepDuration == 5 * Second

Procs == 1..NumReq

Routes == {"/hash", "/stats", "/shutdown"}

\* The three sync.Mutex fields.
Mutexes == {"numWorkingThreadsMutex", "totalHashedMutex", "totalHashingTimeMutex"}

\* mutex value of an unlocked sync.Mutex; otherwise the goroutine that locked it.
Unlocked == 0

\* Query strings of the requests: the values of the "password" parameter
\* (url.Values keeps a list per key; an absent parameter is the empty list).
Queries == {<<>>, <<"dolphins">>}

\* request.URL.Query().Get("password"): the first value, "" when there is none.
QueryGet(q) == IF Len(q) = 0 THEN "" ELSE q[1]

\* Mutant of getSha512HashString: base64.StdEncoding in place of
\* base64.URLEncoding ("+" and "/" where the URL alphabet has "-" and "_").
getSha512HashStringStd(bytes) ==
    CASE bytes = "" -> "z4PhNX7vuL3xVChQ1m2AB9Yg5AULVxXcg/SpIdNs6c5H0NE8XYXysP+DGNKHfuwvY7kxvUdBeoGlODJ6+SfaPg=="
      [] bytes = "dolphins" -> "UE3OmCOVYuW2ngXQozIyxrWg5/EGaAAUyiDDHN4J6BJC8Iw3Ov3GiBHXiUCUDpMjYd1WkpVtGiRvXQ8mS8ns2A=="
      [] bytes = "mermaids" -> "HS3xurF1BDcLu6hXBIWVNYJdMgPHCFM5YhoBMIykGnJPLKtc0swk2ejymYVvgW5Zx/YfI2irzUIZpo5nMMSeXQ=="

\* getSha512HashString on the passwords of the model: SHA-512, then URL-safe
\* base64 with padding (the digests are the vectors of the test file).
getSha512HashString(bytes) ==
    CASE bytes = "" -> "z4PhNX7vuL3xVChQ1m2AB9Yg5AULVxXcg_SpIdNs6c5H0NE8XYXysP-DGNKHfuwvY7kxvUdBeoGlODJ6-SfaPg=="
      [] bytes = "dolphins" -> "UE3OmCOVYuW2ngXQozIyxrWg5_EGaAAUyiDDHN4J6BJC8Iw3Ov3GiBHXiUCUDpMjYd1WkpVtGiRvXQ8mS8ns2A=="
      [] bytes = "mermaids" -> "HS3xurF1BDcLu6hXBIWVNYJdMgPHCFM5YhoBMIykGnJPLKtc0swk2ejymYVvgW5Zx_YfI2irzUIZpo5nMMSeXQ=="

\* Mutant of getAverageHashingTimeInMillis: the quotient is rounded up.
getAverageRoundedUp(th, tt) == IF th = 0 THEN 0 ELSE (tt + th - 1) \div th

\* getAverageHashingTimeInMillis
getAverageHashingTimeInMillis(th, tt) == IF th = 0 THEN 0 ELSE tt \div th

\* Mutant of getJsonStats: the two values are stored under each other's key.
getJsonStatsSwapped(th, avg) ==
    "{\"average\":" \o ToString(th) \o ",\"total\":" \o ToString(avg) \o "}"

\* getJsonStats: json.Marshal of a map writes the keys in sorted order.
getJsonStats(th, avg) ==
    "{\"average\":" \o ToString(avg) \o ",\"total\":" \o ToString(th) \o "}"

AlreadyInProgress == "A server shutdown is already in progress."
UnableToShutdown == "Unable to shutdown server."

\* drainSeen value of a drain loop that has not loaded the counter yet.
NotLoaded == -1

\* avgResult before getAverageHashingTimeInMillis has returned.
NoResult == -1

VARIABLES
    route,              \* route of each request ("" before delivery)
    query,              \* its password values
    pc,                 \* position of each request's goroutine in its handler
    body,               \* response body written so far
    elapsedTime,        \* elapsedTime local of the hashing handler
    jsonStats,          \* jsonStats local of the statistics handler
    numWorkingThreads,  \* threadInfo.numWorkingThreads
    totalHashed,        \* hashStats.totalHashed
    totalHashingTime,   \* hashStats.totalHashingTime
    mutex,              \* owner of each mutex
    shutdownInProgress, \* PwdHashServer.shutdownInProgress
    drainSeen,          \* value of numWorkingThreads last loaded by a drain loop
    preDrain,           \* history: the requests in flight when a drain first loaded the counter
    hoistedLoad,        \* whether the build keeps the drain loop's load in a register
    httpState,          \* "listening", or "closed" once httpServer.Shutdown was called
    exited,             \* the process has exited (logger.Fatal / logger.Fatalf)
    avgHashed,          \* totalHashed argument of a call of getAverageHashingTimeInMillis
    avgTime,            \* its totalHashingTime argument
    avgResult           \* what the call returned

vars == <<route, query, pc, body, elapsedTime, jsonStats, numWorkingThreads,
          totalHashed, totalHashingTime, mutex, shutdownInProgress, drainSeen,
          preDrain, hoistedLoad, httpState, exited, avgHashed, avgTime, avgResult>>

locals == <<route, query, body, elapsedTime, jsonStats>>
stats == <<totalHashed, totalHashingTime>>
shutdownState == <<shutdownInProgress, drainSeen, preDrain, httpState, exited>>
average == <<avgHashed, avgTime, avgResult>>

\* NewPasswordHashingServer: the fields of a new server.
NewPasswordHashingServer ==
    /\ numWorkingThreads = 0
    /\ totalHashed = 0
    /\ totalHashingTime = 0
    /\ mutex = [m \in Mutexes |-> Unlocked]
    /\ shutdownInProgress = FALSE

\* No request has been accepted.
NoRequests ==
    /\ route = [p \in Procs |-> ""]
    /\ query = [p \in Procs |-> <<>>]
    /\ pc = [p \in Procs |-> "idle"]
    /\ body = [p \in Procs |-> ""]
    /\ elapsedTime = [p \in Procs |-> 0]
    /\ jsonStats = [p \in Procs |-> ""]
    /\ drainSeen = [p \in Procs |-> NotLoaded]
    /\ preDrain = [p \in Procs |-> {}]
    /\ httpState = "listening"
    /\ exited = FALSE

\* NewPasswordHashingServer, then StartServer listening.
Init ==
    /\ NewPasswordHashingServer
    /\ NoRequests
    /\ hoistedLoad \in BOOLEAN
    /\ avgHashed = 0
    /\ avgTime = 0
    /\ avgResult = NoResult

\* A goroutine of a live process at position l.
At(p, l) == ~exited /\ pc[p] = l

Goto(p, l) == pc' = [pc EXCEPT ![p] = l]

\* The requests between the store of incrementWorkingThreads and the store of
\* decrementWorkingThreads.
InFlightPcs ==
    {"inc_unlock", "sleep", "hash", "th_lock", "th_add", "th_unlock", "since",
     "tt_lock", "tt_add", "tt_unlock", "st_lock_hashed", "st_lock_time",
     "st_read", "st_write", "st_unlock_hashed", "st_unlock_time",
     "dec_lock", "dec_add"}

InFlight(p) == pc[p] \in InFlightPcs

\* sync.Mutex.Lock blocks until the mutex is unlocked.
CanLock(m) == mutex[m] = Unlocked

Lock(p, m) == CanLock(m) /\ mutex' = [mutex EXCEPT ![m] = p]

Unlock(p, m) == mutex' = [mutex EXCEPT ![m] = Unlocked]

\* The transport (http.Server) accepts a connection and routes its request.
\* Requests are numbered in the order they are accepted.
Deliver(p) ==
    /\ At(p, "idle")
    /\ httpState = "listening"
    /\ \A q \in Procs : q < p => pc[q] # "idle"
    /\ \E r \in Routes :
         /\ route' = [route EXCEPT ![p] = r]
         /\ \E q \in (IF r = "/hash" THEN Queries ELSE {<<>>}) :
              query' = [query EXCEPT ![p] = q]
    /\ Goto(p, "start")
    /\ UNCHANGED <<body, elapsedTime, jsonStats, numWorkingThreads, stats, mutex,
                   shutdownState, hoistedLoad, average>>

\* incrementWorkingThreads, called by the hashing and the statistics handler.
IncLock(p) ==
    /\ At(p, "inc_lock")
    /\ Lock(p, "numWorkingThreadsMutex")
    /\ Goto(p, "inc_add")
    /\ UNCHANGED <<locals, numWorkingThreads, stats, shutdownState, hoistedLoad, average>>

IncAdd(p) ==
    /\ At(p, "inc_add")
    /\ numWorkingThreads' = numWorkingThreads + 1
    /\ Goto(p, "inc_unlock")
    /\ UNCHANGED <<locals, stats, mutex, shutdownState, hoistedLoad, average>>

IncUnlock(p) ==
    /\ At(p, "inc_unlock")
    /\ Unlock(p, "numWorkingThreadsMutex")
    /\ Goto(p, IF route[p] = "/hash" THEN "sleep" ELSE "st_lock_hashed")
    /\ UNCHANGED <<locals, numWorkingThreads, stats, shutdownState, hoistedLoad, average>>

incrementWorkingThreads(p) == IncLock(p) \/ IncAdd(p) \/ IncUnlock(p)

\* decrementWorkingThreads, the last call of both handlers.
DecLock(p) ==
    /\ At(p, "dec_lock")
    /\ Lock(p, "numWorkingThreadsMutex")
    /\ Goto(p, "dec_add")
    /\ UNCHANGED <<locals, numWorkingThreads, stats, shutdownState, hoistedLoad, average>>

\* Mutant of DecAdd: the store of the decrement is missing.
DecAddSkipped(p) ==
    /\ At(p, "dec_add")
    /\ Goto(p, "dec_unlock")
    /\ UNCHANGED <<locals, numWorkingThreads, stats, mutex, shutdownState, hoistedLoad, average>>

DecAdd(p) ==
    /\ At(p, "dec_add")
    /\ numWorkingThreads' = numWorkingThreads - 1
    /\ Goto(p, "dec_unlock")
    /\ UNCHANGED <<locals, stats, mutex, shutdownState, hoistedLoad, average>>

DecUnlock(p) ==
    /\ At(p, "dec_unlock")
    /\ Unlock(p, "numWorkingThreadsMutex")
    /\ Goto(p, "done")
    /\ UNCHANGED <<locals, numWorkingThreads, stats, shutdownState, hoistedLoad, average>>

decrementWorkingThreads(p) == DecLock(p) \/ DecAdd(p) \/ DecUnlock(p)

\* Mutant of CheckShutdown: the handler does not look at the flag.
CheckShutdownIgnored(p) ==
    /\ At(p, "start")
    /\ route[p] \in {"/hash", "/stats"}
    /\ Goto(p, "inc_lock")
    /\ UNCHANGED <<locals, numWorkingThreads, stats, mutex, shutdownState, hoistedLoad, average>>

\* The first statement of the hashing and of the statistics handler:
\* if phs.shutdownInProgress { return }
CheckShutdown(p) ==
    /\ At(p, "start")
    /\ route[p] \in {"/hash", "/stats"}
    /\ Goto(p, IF shutdownInProgress THEN "rejected" ELSE "inc_lock")
    /\ UNCHANGED <<locals, numWorkingThreads, stats, mutex, shutdownState, hoistedLoad, average>>

\* startTime := time.Now(); time.Sleep(5 * time.Second)
HashSleep(p) ==
    /\ At(p, "sleep")
    /\ Goto(p, "hash")
    /\ UNCHANGED <<locals, numWorkingThreads, stats, mutex, shutdownState, hoistedLoad, average>>

\* password := Query().Get("password"); hash := getSha512HashString(password);
\* fmt.Fprintf(responseWriter, "%s", hash)
HashWrite(p) ==
    /\ At(p, "hash")
    /\ body' = [body EXCEPT ![p] = @ \o getSha512HashString(QueryGet(query[p]))]
    /\ Goto(p, "th_lock")
    /\ UNCHANGED <<route, query, elapsedTime, jsonStats, numWorkingThreads, stats,
                   mutex, shutdownState, hoistedLoad, average>>

\* incrementTotalHashed
TotalHashedLock(p) ==
    /\ At(p, "th_lock")
    /\ Lock(p, "totalHashedMutex")
    /\ Goto(p, "th_add")
    /\ UNCHANGED <<locals, numWorkingThreads, stats, shutdownState, hoistedLoad, average>>

TotalHashedAdd(p) ==
    /\ At(p, "th_add")
    /\ totalHashed' = totalHashed + 1
    /\ Goto(p, "th_unlock")
    /\ UNCHANGED <<locals, numWorkingThreads, totalHashingTime, mutex,
                   shutdownState, hoistedLoad, average>>

\* Mutant of TotalHashedUnlock: the handler leaves before it records the time.
TotalHashedUnlockThenLeave(p) ==
    /\ At(p, "th_unlock")
    /\ Unlock(p, "totalHashedMutex")
    /\ Goto(p, "dec_lock")
    /\ UNCHANGED <<locals, numWorkingThreads, stats, shutdownState, hoistedLoad, average>>

TotalHashedUnlock(p) ==
    /\ At(p, "th_unlock")
    /\ Unlock(p, "totalHashedMutex")
    /\ Goto(p, "since")
    /\ UNCHANGED <<locals, numWorkingThreads, stats, shutdownState, hoistedLoad, average>>

incrementTotalHashed(p) ==
    TotalHashedLock(p) \/ TotalHashedAdd(p) \/ TotalHashedUnlock(p)

\* The durations time.Since(startTime) can return: the sleep and what the
\* scheduler adds to it.
ElapsedTimes == {SleepDuration, SleepDuration + Jitter}

\* elapsedTime := time.Since(startTime)
HashSince(p) ==
    /\ At(p, "since")
    /\ \E d \in ElapsedTimes : elapsedTime' = [elapsedTime EXCEPT ![p] = d]
    /\ Goto(p, "tt_lock")
    /\ UNCHANGED <<route, query, body, jsonStats, numWorkingThreads, stats, mutex,
                   shutdownState, hoistedLoad, average>>

\* Mutant of DurationToMillis: rounded to the nearest millisecond.
DurationToMillisRounded(d) == (d + (Millisecond \div 2)) \div Millisecond

\* int64(additionalTime/time.Millisecond)
DurationToMillis(d) == d \div Millisecond

\* increaseTotalHashingTime(elapsedTime); the logger call follows it.
TotalHashingTimeLock(p) ==
    /\ At(p, "tt_lock")
    /\ Lock(p, "totalHashingTimeMutex")
    /\ Goto(p, "tt_add")
    /\ UNCHANGED <<locals, numWorkingThreads, stats, shutdownState, hoistedLoad, average>>

\* Mutant of TotalHashingTimeAdd: = in place of +=.
TotalHashingTimeAssign(p) ==
    /\ At(p, "tt_add")
    /\ totalHashingTime' = DurationToMillis(elapsedTime[p])
    /\ Goto(p, "tt_unlock")
    /\ UNCHANGED <<locals, numWorkingThreads, totalHashed, mutex, shutdownState,
                   hoistedLoad, average>>

TotalHashingTimeAdd(p) ==
    /\ At(p, "tt_add")
    /\ totalHashingTime' = totalHashingTime + DurationToMillis(elapsedTime[p])
    /\ Goto(p, "tt_unlock")
    /\ UNCHANGED <<locals, numWorkingThreads, totalHashed, mutex, shutdownState,
                   hoistedLoad, average>>

\* Mutant of TotalHashingTimeUnlock: the Unlock call is missing.
TotalHashingTimeUnlockMissing(p) ==
    /\ At(p, "tt_unlock")
    /\ Goto(p, "dec_lock")
    /\ UNCHANGED <<locals, numWorkingThreads, stats, mutex, shutdownState, hoistedLoad,
                   average>>

TotalHashingTimeUnlock(p) ==
    /\ At(p, "tt_unlock")
    /\ Unlock(p, "totalHashingTimeMutex")
    /\ Goto(p, "dec_lock")
    /\ UNCHANGED <<locals, numWorkingThreads, stats, shutdownState, hoistedLoad, average>>

increaseTotalHashingTime(p) ==
    TotalHashingTimeLock(p) \/ TotalHashingTimeAdd(p) \/ TotalHashingTimeUnlock(p)

\* The handler getHashingHandler returns.
HashingHandler(p) ==
    \/ route[p] = "/hash" /\ CheckShutdown(p)
    \/ route[p] = "/hash" /\ incrementWorkingThreads(p)
    \/ route[p] = "/hash" /\ HashSleep(p)
    \/ route[p] = "/hash" /\ HashWrite(p)
    \/ route[p] = "/hash" /\ incrementTotalHashed(p)
    \/ route[p] = "/hash" /\ HashSince(p)
    \/ route[p] = "/hash" /\ increaseTotalHashingTime(p)
    \/ route[p] = "/hash" /\ decrementWorkingThreads(p)

\* The statistics handler locks totalHashedMutex, then totalHashingTimeMutex.
StatsLockHashed(p) ==
    /\ At(p, "st_lock_hashed")
    /\ Lock(p, "totalHashedMutex")
    /\ Goto(p, "st_lock_time")
    /\ UNCHANGED <<locals, numWorkingThreads, stats, shutdownState, hoistedLoad, average>>

\* Mutant of StatsLockTime: the statistics handler does not lock
\* totalHashingTimeMutex.
StatsLockTimeSkipped(p) ==
    /\ At(p, "st_lock_time")
    /\ Goto(p, "st_read")
    /\ UNCHANGED <<locals, numWorkingThreads, stats, mutex, shutdownState, hoistedLoad, average>>

StatsLockTime(p) ==
    /\ At(p, "st_lock_time")
    /\ Lock(p, "totalHashingTimeMutex")
    /\ Goto(p, "st_read")
    /\ UNCHANGED <<locals, numWorkingThreads, stats, shutdownState, hoistedLoad, average>>

\* Mutant of StatsRead: the statistics request counts itself in totalHashed.
StatsReadCounts(p) ==
    /\ At(p, "st_read")
    /\ jsonStats' = [jsonStats EXCEPT ![p] =
           getJsonStats(totalHashed,
                        getAverageHashingTimeInMillis(totalHashed, totalHashingTime))]
    /\ totalHashed' = totalHashed + 1
    /\ Goto(p, "st_write")
    /\ UNCHANGED <<route, query, body, elapsedTime, numWorkingThreads, totalHashingTime,
                   mutex, shutdownState, hoistedLoad, average>>

\* jsonStats := phs.getJsonStats(totalHashed,
\*                  getAverageHashingTimeInMillis(totalHashed, totalHashingTime))
StatsRead(p) ==
    /\ At(p, "st_read")
    /\ jsonStats' = [jsonStats EXCEPT ![p] =
           getJsonStats(totalHashed,
                        getAverageHashingTimeInMillis(totalHashed, totalHashingTime))]
    /\ Goto(p, "st_write")
    /\ UNCHANGED <<route, query, body, elapsedTime, numWorkingThreads, stats, mutex,
                   shutdownState, hoistedLoad, average>>

\* fmt.Fprintf(responseWriter, jsonStats)
StatsWrite(p) ==
    /\ At(p, "st_write")
    /\ body' = [body EXCEPT ![p] = @ \o jsonStats[p]]
    /\ Goto(p, "st_unlock_hashed")
    /\ UNCHANGED <<route, query, elapsedTime, jsonStats, numWorkingThreads, stats,
                   mutex, shutdownState, hoistedLoad, average>>

StatsUnlockHashed(p) ==
    /\ At(p, "st_unlock_hashed")
    /\ Unlock(p, "totalHashedMutex")
    /\ Goto(p, "st_unlock_time")
    /\ UNCHANGED <<locals, numWorkingThreads, stats, shutdownState, hoistedLoad, average>>

StatsUnlockTime(p) ==
    /\ At(p, "st_unlock_time")
    /\ Unlock(p, "totalHashingTimeMutex")
    /\ Goto(p, "dec_lock")
    /\ UNCHANGED <<locals, numWorkingThreads, stats, shutdownState, hoistedLoad, average>>

\* The handler getStatsHandler returns.
StatsHandler(p) ==
    \/ route[p] = "/stats" /\ CheckShutdown(p)
    \/ route[p] = "/stats" /\ incrementWorkingThreads(p)
    \/ route[p] = "/stats" /\ StatsLockHashed(p)
    \/ route[p] = "/stats" /\ StatsLockTime(p)
    \/ route[p] = "/stats" /\ StatsRead(p)
    \/ route[p] = "/stats" /\ StatsWrite(p)
    \/ route[p] = "/stats" /\ StatsUnlockHashed(p)
    \/ route[p] = "/stats" /\ StatsUnlockTime(p)
    \/ route[p] = "/stats" /\ decrementWorkingThreads(p)

\* Mutant of ShutdownCheck: the shutdown handler registers with the
\* in-flight counter as the other handlers do.
ShutdownCheckRegisters(p) ==
    /\ At(p, "start")
    /\ numWorkingThreads' = numWorkingThreads + 1
    /\ Goto(p, IF ~shutdownInProgress THEN "sd_set" ELSE "sd_already")
    /\ UNCHANGED <<locals, stats, mutex, shutdownState, hoistedLoad, average>>

\* if !phs.shutdownInProgress { ... } else { ... }: the load of the flag.
ShutdownCheck(p) ==
    /\ At(p, "start")
    /\ Goto(p, IF ~shutdownInProgress THEN "sd_set" ELSE "sd_already")
    /\ UNCHANGED <<locals, numWorkingThreads, stats, mutex, shutdownState, hoistedLoad, average>>

\* Mutant of ShutdownSet: the store to the flag is missing.
ShutdownSetSkipped(p) ==
    /\ At(p, "sd_set")
    /\ Goto(p, "sd_wait")
    /\ UNCHANGED <<locals, numWorkingThreads, stats, mutex, shutdownState, hoistedLoad, average>>

\* phs.shutdownInProgress = true; the logger call follows it.
ShutdownSet(p) ==
    /\ At(p, "sd_set")
    /\ shutdownInProgress' = TRUE
    /\ Goto(p, "sd_wait")
    /\ UNCHANGED <<locals, numWorkingThreads, stats, mutex, drainSeen, preDrain,
                   httpState, exited, hoistedLoad, average>>

\* The value one evaluation of the loop condition of waitForWorkingThreads
\* compares with 0.  The load is not synchronised with the stores of the
\* handlers: the first evaluation loads the counter from memory, a later one
\* loads it again or, in a build that keeps the loaded value in a register,
\* uses the value of the first load.
DrainLoad(p) ==
    IF drainSeen[p] # NotLoaded /\ hoistedLoad THEN drainSeen[p] ELSE numWorkingThreads

\* Mutant of waitForWorkingThreads: an if in place of the for, the counter is
\* loaded once and the drain returns whatever it holds.
waitForWorkingThreadsOnce(p) ==
    /\ At(p, "sd_wait")
    /\ drainSeen' = [drainSeen EXCEPT ![p] = numWorkingThreads]
    /\ preDrain' = [preDrain EXCEPT ![p] = {q \in Procs : InFlight(q)}]
    /\ Goto(p, "sd_stop")
    /\ UNCHANGED <<locals, numWorkingThreads, stats, mutex, shutdownInProgress,
                   httpState, exited, hoistedLoad, average>>

\* waitForWorkingThreads: for phs.threadInfo.numWorkingThreads > 0 { }
waitForWorkingThreads(p) ==
    /\ At(p, "sd_wait")
    /\ drainSeen' = [drainSeen EXCEPT ![p] = DrainLoad(p)]
    /\ preDrain' = [preDrain EXCEPT ![p] =
           IF drainSeen[p] = NotLoaded THEN {q \in Procs : InFlight(q)} ELSE @]
    /\ Goto(p, IF DrainLoad(p) > 0 THEN "sd_wait" ELSE "sd_stop")
    /\ UNCHANGED <<locals, numWorkingThreads, stats, mutex, shutdownInProgress,
                   httpState, exited, hoistedLoad, average>>

\* Mutant of ShutdownStop: the flag is cleared once the drain is over.
ShutdownStopResets(p) ==
    /\ At(p, "sd_stop")
    /\ httpState' = "closed"
    /\ shutdownInProgress' = FALSE
    /\ Goto(p, "sd_return")
    /\ UNCHANGED <<locals, numWorkingThreads, stats, mutex, drainSeen, preDrain, exited,
                   hoistedLoad, average>>

\* phs.httpServer.Shutdown(context.Background()) closes the listeners.
ShutdownStop(p) ==
    /\ At(p, "sd_stop")
    /\ httpState' = "closed"
    /\ Goto(p, "sd_return")
    /\ UNCHANGED <<locals, numWorkingThreads, stats, mutex, shutdownInProgress,
                   drainSeen, preDrain, exited, hoistedLoad, average>>

\* Mutant of ShutdownReturn: the error is logged with Printf, not Fatalf, and
\* the handler returns.
ShutdownReturnNotFatal(p) ==
    /\ At(p, "sd_return")
    /\ \E err \in BOOLEAN :
         IF err
         THEN body' = [body EXCEPT ![p] = @ \o UnableToShutdown]
         ELSE UNCHANGED body
    /\ Goto(p, "done")
    /\ UNCHANGED <<route, query, elapsedTime, jsonStats, numWorkingThreads, stats,
                   mutex, shutdownState, hoistedLoad, average>>

\* httpServer.Shutdown returns: nil, or an error, and then the handler writes
\* "Unable to shutdown server." and logger.Fatalf ends the process.
ShutdownReturn(p) ==
    /\ At(p, "sd_return")
    /\ \E err \in BOOLEAN :
         IF err
         THEN /\ body' = [body EXCEPT ![p] = @ \o UnableToShutdown]
              /\ exited' = TRUE
              /\ Goto(p, "fatal")
         ELSE /\ Goto(p, "done")
              /\ UNCHANGED <<body, exited>>
    /\ UNCHANGED <<route, query, elapsedTime, jsonStats, numWorkingThreads, stats,
                   mutex, shutdownInProgress, drainSeen, preDrain, httpState,
                   hoistedLoad, average>>

\* Mutant of ShutdownAlready: the losing branch stops the transport as well.
ShutdownAlreadyStops(p) ==
    /\ At(p, "sd_already")
    /\ body' = [body EXCEPT ![p] = @ \o AlreadyInProgress]
    /\ httpState' = "closed"
    /\ Goto(p, "rejected")
    /\ UNCHANGED <<route, query, elapsedTime, jsonStats, numWorkingThreads, stats,
                   mutex, shutdownInProgress, drainSeen, preDrain, exited, hoistedLoad, average>>

\* fmt.Fprintf(responseWriter, "A server shutdown is already in progress.")
ShutdownAlready(p) ==
    /\ At(p, "sd_already")
    /\ body' = [body EXCEPT ![p] = @ \o AlreadyInProgress]
    /\ Goto(p, "rejected")
    /\ UNCHANGED <<route, query, elapsedTime, jsonStats, numWorkingThreads, stats,
                   mutex, shutdownState, hoistedLoad, average>>

\* The handler getShutdownHandler returns.
ShutdownHandler(p) ==
    \/ route[p] = "/shutdown" /\ ShutdownCheck(p)
    \/ route[p] = "/shutdown" /\ ShutdownSet(p)
    \/ route[p] = "/shutdown" /\ waitForWorkingThreads(p)
    \/ route[p] = "/shutdown" /\ ShutdownStop(p)
    \/ route[p] = "/shutdown" /\ ShutdownReturn(p)
    \/ route[p] = "/shutdown" /\ ShutdownAlready(p)

\* StartServer: phs.logger.Fatal(phs.httpServer.ListenAndServe()).  ListenAndServe
\* returns once the listeners are closed, and logger.Fatal ends the process.
StartServerFatal ==
    /\ ~exited
    /\ httpState = "closed"
    /\ exited' = TRUE
    /\ UNCHANGED <<locals, pc, numWorkingThreads, stats, mutex, shutdownInProgress,
                   drainSeen, preDrain, httpState, hoistedLoad, average>>

\* One step of the goroutine of request p.
Step(p) == HashingHandler(p) \/ StatsHandler(p) \/ ShutdownHandler(p)

Next ==
    \/ \E p \in Procs : Deliver(p)
    \/ \E p \in Procs : Step(p)
    \/ StartServerFatal

Spec == Init /\ [][Next]_vars

\* getAverageHashingTimeInMillis called alone, as the tests call it, on
\* arguments drawn from 0..MaxAvgHashed and 0..MaxAvgTime.
AverageInit ==
    /\ NewPasswordHashingServer
    /\ NoRequests
    /\ hoistedLoad = FALSE
    /\ avgHashed \in 0..MaxAvgHashed
    /\ avgTime \in 0..MaxAvgTime
    /\ avgResult = NoResult

AverageCall ==
    /\ avgResult = NoResult
    /\ avgResult' = getAverageHashingTimeInMillis(avgHashed, avgTime)
    /\ UNCHANGED <<locals, pc, numWorkingThreads, stats, mutex, shutdownState,
                   hoistedLoad, avgHashed, avgTime>>

AverageSpec == AverageInit /\ [][AverageCall]_vars

\* Every goroutine that can take a step eventually takes one.
FairSpec == Spec /\ \A p \in Procs : WF_vars(Step(p))

(***************************************************************************)
(* Vocabulary of the properties.                                           *)
(***************************************************************************)
Handlers == {p \in Procs : route[p] \in {"/hash", "/stats"}}
Hashers == {p \in Procs : route[p] = "/hash"}
Shutdowns == {p \in Procs : route[p] = "/shutdown"}

\* The store of decrementWorkingThreads has been executed.
Decremented(p) == pc[p] \in {"dec_unlock", "done"}

\* The shutdown request has stored true to the flag.
Won(s) == s \in Shutdowns /\ pc[s] \in {"sd_wait", "sd_stop", "sd_return", "done", "fatal"}

\* The shutdown request has left waitForWorkingThreads.
Drained(s) == s \in Shutdowns /\ pc[s] \in {"sd_stop", "sd_return", "done", "fatal"}

\* The hash request has added 1 to totalHashed / its time to totalHashingTime.
Counted(h) ==
    h \in Hashers /\ pc[h] \in {"th_unlock", "since", "tt_lock", "tt_add", "tt_unlock",
                               "dec_lock", "dec_add", "dec_unlock", "done"}
Timed(h) ==
    h \in Hashers /\ pc[h] \in {"tt_unlock", "dec_lock", "dec_add", "dec_unlock", "done"}

\* The statistics handler holds both statistics mutexes.
HoldsBoth(s) ==
    route[s] = "/stats" /\ pc[s] \in {"st_read", "st_write", "st_unlock_hashed"}

RECURSIVE SumMillis(_)
SumMillis(S) ==
    IF S = {} THEN 0
    ELSE LET h == CHOOSE x \in S : TRUE
         IN (elapsedTime[h] \div Millisecond) + SumMillis(S \ {h})

(***************************************************************************)
(* Properties.                                                             *)
(***************************************************************************)

\* C1: drain safety.  A shutdown request that has left waitForWorkingThreads
\* read 0 from the in-flight counter on its last load, and every request that
\* was in flight when the drain first loaded the counter (hence every request
\* that had incremented before the drain began) has executed its decrement.
C1_DrainSafety ==
    \A s \in Procs :
        Drained(s) =>
            /\ drainSeen[s] = 0
            /\ \A q \in preDrain[s] : Decremented(q)

\* A drain that found a request in flight has returned.
C1_Witness == \E s \in Procs : Drained(s) /\ preDrain[s] # {}

\* C2: once a winning shutdown has left its drain and has instructed the
\* transport to stop, no /hash or /stats request that passed the flag check
\* is still to execute its increment, its work or its decrement.
C2_NoLateAdmission ==
    (httpState = "closed" /\ ~exited) =>
        \A p \in Handlers : pc[p] \notin ({"inc_lock", "inc_add"} \cup InFlightPcs)

\* C3: the in-flight counter is never negative and equals the number of
\* handler executions between their increment and their decrement.
C3_CounterExact ==
    /\ numWorkingThreads >= 0
    /\ numWorkingThreads = Cardinality({p \in Procs : InFlight(p)})

\* Two handlers are in flight at once.
C3_Witness == numWorkingThreads = 2 /\ \A p \in Procs : InFlight(p)

\* C4: a statistics handler that has read the pair (totalHashed,
\* totalHashingTime) read it in a state where every hash operation counted in
\* totalHashed had its elapsed time added to totalHashingTime.
C4_PairAtomic ==
    \A s \in Procs :
        (route[s] = "/stats" /\ pc[s] = "st_write") =>
            \A h \in Procs : Counted(h) => Timed(h)

\* C5: the statistics handler reads one snapshot.  While it holds both
\* statistics mutexes no step changes totalHashed or totalHashingTime, and
\* the total and the average it is about to report are those of the current
\* values of both fields.
C5_Snapshot ==
    /\ [][(\E s \in Procs : HoldsBoth(s) /\ HoldsBoth(s)') => UNCHANGED stats]_vars
    /\ [](\A s \in Procs :
            (route[s] = "/stats" /\ pc[s] \in {"st_write", "st_unlock_hashed"}) =>
                jsonStats[s] = getJsonStats(totalHashed,
                    getAverageHashingTimeInMillis(totalHashed, totalHashingTime)))

\* A statistics handler holds its snapshot while a hash handler waits for the
\* mutex of totalHashingTime with its count already added.
C5_Witness ==
    \E s, h \in Procs :
        /\ route[s] = "/stats" /\ pc[s] = "st_write"
        /\ route[h] = "/hash" /\ pc[h] = "tt_lock"

\* The hash requests that have run to their decrement.
CompletedHashes == {h \in Hashers : Decremented(h)}

\* C6: no statistics update is lost, whatever the interleaving.  When no
\* handler is in flight, totalHashed is the number of completed hash requests
\* and totalHashingTime the sum of their elapsed whole milliseconds.
C6_NoLostUpdate ==
    (\A p \in Procs : ~InFlight(p)) =>
        /\ totalHashed = Cardinality(CompletedHashes)
        /\ totalHashingTime = SumMillis(CompletedHashes)

\* Two hash requests with different elapsed times have completed.
C6_Witness ==
    /\ \A p \in Procs : ~InFlight(p)
    /\ \E h, k \in CompletedHashes : elapsedTime[h] < elapsedTime[k]
    /\ totalHashed = 2

\* C7 as claimed: at most one shutdown request wins the check-then-set.
C7_SingleWinner == Cardinality({s \in Procs : Won(s)}) <= 1

\* C7, amended: the flag is set by at least one shutdown request and possibly
\* by several.  The flag is true exactly when some shutdown request has won;
\* a shutdown request takes the losing branch only after another one has won,
\* and its response is the fixed text; a shutdown request whose check
\* executes with the flag set takes the losing branch.
C7_BestEffortGate ==
    /\ [](shutdownInProgress <=> \E w \in Procs : Won(w))
    /\ [](\A s \in Shutdowns :
            /\ pc[s] \in {"sd_already", "rejected"} =>
                   \E w \in Procs \ {s} : Won(w)
            /\ pc[s] = "rejected" => body[s] = AlreadyInProgress)
    /\ [][\A s \in Shutdowns :
            (pc[s] = "start" /\ shutdownInProgress /\ pc'[s] # "start") =>
                pc'[s] = "sd_already"]_vars

\* A shutdown request has lost against one that has completed.
C7_Witness ==
    \E s, w \in Shutdowns :
        pc[s] = "rejected" /\ pc[w] = "done" /\ body[s] = AlreadyInProgress

\* C8: a /hash or /stats handler whose first statement executes with the flag
\* set returns at once: it writes no body and changes neither the in-flight
\* counter nor the statistics, and takes no lock.
C8_RejectedFrame ==
    /\ [][\A p \in Handlers :
            (pc[p] = "start" /\ shutdownInProgress /\ pc'[p] # "start") =>
                /\ pc'[p] = "rejected"
                /\ body'[p] = ""
                /\ UNCHANGED <<numWorkingThreads, stats, mutex>>]_vars
    /\ [](\A p \in Handlers : pc[p] = "rejected" => body[p] = "")

\* A /hash or /stats request that found the flag set has returned.
C8_Witness ==
    \E p \in Procs : route[p] \in {"/hash", "/stats"} /\ pc[p] = "rejected"

\* C9: a shutdown request that finds the flag set writes the fixed text and
\* nothing else: its steps leave the flag, the in-flight counter, the
\* statistics, the mutexes, the drain state and the transport unchanged.
C9_DuplicateShutdown ==
    /\ [][\A s \in Shutdowns :
            (/\ \/ pc[s] = "start" /\ shutdownInProgress
                \/ pc[s] = "sd_already"
             /\ pc'[s] # pc[s]) =>
                /\ pc'[s] \in {"sd_already", "rejected"}
                /\ UNCHANGED <<numWorkingThreads, stats, mutex, shutdownState>>]_vars
    /\ [](\A s \in Shutdowns :
            pc[s] = "rejected" => body[s] = AlreadyInProgress)

\* A duplicate shutdown request has completed while the server still listens.
C9_Witness ==
    \E s \in Shutdowns : pc[s] = "rejected" /\ httpState = "listening"

DrainCompletesWhenReloaded ==
    \A s \in Procs :
        (~hoistedLoad /\ route[s] = "/shutdown" /\ pc[s] = "sd_wait")
            ~> (pc[s] # "sd_wait" \/ exited)

\* While a shutdown request waits in its drain no mutex is held by it: the
\* wait never blocks a handler's increment, work or decrement.
DrainHoldsNoMutex ==
    \A m \in Mutexes : mutex[m] # Unlocked => mutex[m] \in Handlers

\* C11: the average is totalHashingTime divided by totalHashed, truncated
\* toward zero, and 0 when totalHashed is 0: for non-negative arguments the
\* result r is 0 when totalHashed = 0 and otherwise the one integer with
\* r * totalHashed <= totalHashingTime < (r + 1) * totalHashed; in particular
\* average(2, 12) = 6 and average(3, 23) = 7.
C11_Average ==
    avgResult # NoResult =>
        /\ avgHashed = 0 => avgResult = 0
        /\ avgHashed > 0 =>
               /\ avgResult * avgHashed <= avgTime
               /\ avgTime < (avgResult + 1) * avgHashed
        /\ (avgHashed = 2 /\ avgTime = 12) => avgResult = 6
        /\ (avgHashed = 3 /\ avgTime = 23) => avgResult = 7

\* The call average(3, 23) has returned 7.
C11_Witness == avgHashed = 3 /\ avgTime = 23 /\ avgResult = 7

\* C12: the outcome of a winning shutdown handler.  When httpServer.Shutdown
\* returns nil the handler ends with an empty body; when it returns an error
\* the body is the fixed text and the process has exited; an exited process
\* takes no further step.
C12_ShutdownOutcome ==
    /\ \A s \in Shutdowns :
         /\ pc[s] = "done" => body[s] = ""
         /\ pc[s] = "fatal" => (body[s] = UnableToShutdown /\ exited)
    /\ exited => ~ENABLED Next

\* One winning shutdown request ended with success, another with the failure.
C12_Witness ==
    \E s, w \in Shutdowns : pc[s] = "done" /\ pc[w] = "fatal"

\* The statistics handler has written its response.
StatsWritten(s) ==
    route[s] = "/stats" /\ pc[s] \in {"st_unlock_hashed", "st_unlock_time", "dec_lock",
                                      "dec_add", "dec_unlock", "done"}

\* C13: an admitted /stats request responds with the total and the average
\* of its snapshot and nothing else.  Right after the write, with both
\* mutexes still held, the body is the JSON object whose "total" is
\* totalHashed and whose "average" is totalHashingTime / totalHashed (0 when
\* nothing was hashed), "average" first; when nothing was hashed it is
\* {"average":0,"total":0}; the body does not change afterwards.
C13_StatsBody ==
    \A s \in Procs :
        /\ (route[s] = "/stats" /\ pc[s] = "st_unlock_hashed") =>
               /\ body[s] = "{\"average\":"
                              \o ToString(IF totalHashed = 0 THEN 0
                                          ELSE totalHashingTime \div totalHashed)
                              \o ",\"total\":" \o ToString(totalHashed) \o "}"
               /\ totalHashed = 0 => body[s] = "{\"average\":0,\"total\":0}"
        /\ StatsWritten(s) => body[s] = jsonStats[s]

\* A statistics request has reported one hash with its elapsed milliseconds.
C13_Witness ==
    \E s \in Procs :
        /\ route[s] = "/stats" /\ pc[s] = "st_unlock_hashed"
        /\ totalHashed = 1 /\ totalHashingTime >= 5000

\* The hashing handler has written its response.
HashWritten(h) ==
    route[h] = "/hash" /\ pc[h] \notin {"idle", "start", "rejected", "inc_lock",
                                       "inc_add", "inc_unlock", "sleep", "hash"}

\* C14: an admitted /hash request writes as its whole body the digest of its
\* password parameter, and the digest of the empty string when the parameter
\* is missing; two requests with the same password have the same body.
C14_HashBody ==
    /\ \A h \in Procs :
         HashWritten(h) =>
            /\ query[h] = <<>> =>
                 body[h] = "z4PhNX7vuL3xVChQ1m2AB9Yg5AULVxXcg_SpIdNs6c5H0NE8XYXysP-DGNKHfuwvY7kxvUdBeoGlODJ6-SfaPg=="
            /\ query[h] = <<"dolphins">> =>
                 body[h] = "UE3OmCOVYuW2ngXQozIyxrWg5_EGaAAUyiDDHN4J6BJC8Iw3Ov3GiBHXiUCUDpMjYd1WkpVtGiRvXQ8mS8ns2A=="
    /\ \A h, k \in Procs :
         (HashWritten(h) /\ HashWritten(k) /\ query[h] = query[k]) => body[h] = body[k]

\* A request without the parameter and one with it have both been answered.
C14_Witness ==
    \E h, k \in Procs :
        /\ HashWritten(h) /\ query[h] = <<>>
        /\ HashWritten(k) /\ query[k] = <<"dolphins">>

\* The hash requests whose response has been written.
AnsweredHashes == {h \in Hashers : body[h] # ""}

\* C15: the order of the steps of an admitted hashing handler.  The response
\* is written after the increment, the elapsed time is taken after the
\* response is written, and the decrement comes after both; so when the
\* in-flight counter is 0 and no handler is between its flag check and its
\* increment, totalHashed and totalHashingTime include every hash request
\* that has written its response.
C15_RecordBeforeLeave ==
    /\ \A h \in Hashers :
         /\ body[h] # "" => (InFlight(h) \/ Decremented(h))
         /\ elapsedTime[h] # 0 => body[h] # ""
         /\ Decremented(h) => (body[h] # "" /\ elapsedTime[h] # 0)
    /\ (/\ numWorkingThreads = 0
        /\ \A p \in Handlers : pc[p] \notin {"inc_lock", "inc_add"}) =>
            /\ totalHashed = Cardinality(AnsweredHashes)
            /\ totalHashingTime = SumMillis(AnsweredHashes)

\* The counter is back at 0 after a hash request was answered, and a later
\* request has not yet checked the flag.
C15_Witness ==
    /\ numWorkingThreads = 0
    /\ AnsweredHashes # {}
    /\ \E p \in Handlers : pc[p] = "start"

WaitingFor(p) ==
    CASE pc[p] \in {"inc_lock", "dec_lock"} -> "numWorkingThreadsMutex"
      [] pc[p] \in {"th_lock", "st_lock_hashed"} -> "totalHashedMutex"
      [] pc[p] \in {"tt_lock", "st_lock_time"} -> "totalHashingTimeMutex"
      [] OTHER -> ""

\* The goroutine is in Lock on a mutex that is locked.
Blocked(p) == WaitingFor(p) # "" /\ mutex[WaitingFor(p)] # Unlocked

\* Following the owners of the mutexes from p leads, within n owners, to a
\* goroutine that can take a step.
RECURSIVE CanProceed(_, _)
CanProceed(p, n) ==
    IF ~Blocked(p) THEN p \in Procs /\ ENABLED Step(p)
    ELSE n > 0 /\ CanProceed(mutex[WaitingFor(p)], n - 1)

\* The positions at which a handler holds each mutex.
HeldAt(m) ==
    CASE m = "numWorkingThreadsMutex" -> {"inc_add", "inc_unlock", "dec_add", "dec_unlock"}
      [] m = "totalHashedMutex" ->
            {"th_add", "th_unlock", "st_lock_time", "st_read", "st_write", "st_unlock_hashed"}
      [] m = "totalHashingTimeMutex" ->
            {"tt_add", "tt_unlock", "st_read", "st_write", "st_unlock_hashed",
             "st_unlock_time"}

\* C17: the lock discipline has no deadlock.  A locked mutex is owned by a
\* handler that is inside the critical section of that mutex (so a handler
\* that has returned holds none, a hash handler holds at most one, and only
\* the statistics handler holds the two statistics mutexes at once); and
\* while the process runs, every handler blocked in Lock waits, through the
\* owners of the mutexes, for a handler that can take a step.
C17_NoDeadlock ==
    /\ \A m \in Mutexes :
         mutex[m] # Unlocked =>
            /\ mutex[m] \in Handlers
            /\ pc[mutex[m]] \in HeldAt(m)
    /\ \A p \in Handlers :
         /\ pc[p] \in HeldAt("numWorkingThreadsMutex") => mutex["numWorkingThreadsMutex"] = p
         /\ (route[p] = "/hash" /\ pc[p] \in HeldAt("totalHashedMutex"))
               => pc[p] \notin HeldAt("totalHashingTimeMutex")
    /\ ~exited => \A p \in Procs : Blocked(p) => CanProceed(p, NumReq)

\* A hash handler is blocked on the mutex of totalHashed, which a statistics
\* handler holds together with the mutex of totalHashingTime.
C17_Witness ==
    \E h, s \in Procs :
        /\ pc[h] = "th_lock" /\ Blocked(h)
        /\ mutex["totalHashedMutex"] = s /\ mutex["totalHashingTimeMutex"] = s

\* C18: the shutdown flag is monotonic.  It starts false; only the store of a
\* shutdown request that passed its check sets it; no step of any handler
\* clears it; and a /hash or /stats handler whose check executes while it is
\* set is rejected.
C18_FlagMonotonic ==
    /\ ~shutdownInProgress
    /\ [][/\ shutdownInProgress => shutdownInProgress'
          /\ (~shutdownInProgress /\ shutdownInProgress') =>
                \E s \in Shutdowns : pc[s] = "sd_set" /\ pc'[s] = "sd_wait"
          /\ \A p \in Handlers :
                (shutdownInProgress /\ pc[p] = "start" /\ pc'[p] # "start") =>
                    pc'[p] = "rejected"]_vars
    /\ [](\A s \in Procs : Won(s) => shutdownInProgress)

\* A shutdown request has run to its end with the flag still set, and a /hash
\* or /stats request that started later was rejected.
C18_Witness ==
    \E s, p \in Procs :
        /\ Won(s) /\ pc[s] = "done" /\ shutdownInProgress
        /\ p \in Handlers /\ s < p /\ pc[p] = "rejected"

\* C19: a shutdown handler never registers with the in-flight counter.  No
\* step of a shutdown request, on the winning or on the duplicate path,
\* changes numWorkingThreads, totalHashed, totalHashingTime or a mutex; the
\* counter is 0 whenever no /hash or /stats handler is in flight, so a drain
\* whose first load finds none of them in flight ends at once.
C19_ShutdownFrame ==
    /\ [][\A s \in Shutdowns :
            (pc'[s] # pc[s] \/ drainSeen'[s] # drainSeen[s]) =>
                /\ UNCHANGED <<numWorkingThreads, totalHashed, totalHashingTime, mutex>>
                /\ (/\ pc[s] = "sd_wait" /\ drainSeen[s] = NotLoaded
                    /\ \A p \in Handlers : ~InFlight(p)) => pc'[s] = "sd_stop"]_vars
    /\ [](\A s \in Shutdowns : ~InFlight(s) /\ pc[s] \notin {"inc_lock", "inc_add"})
    /\ []((\A p \in Handlers : ~InFlight(p)) => numWorkingThreads = 0)

\* With only shutdown requests present, the winner has left its drain on its
\* first load and the duplicate is on its way out.
C19_Witness ==
    \E s, w \in Shutdowns :
        pc[w] = "sd_stop" /\ drainSeen[w] = 0 /\ pc[s] = "sd_already"

\* The statistics requests.
StatsRequests == {p \in Procs : route[p] = "/stats"}

\* C20: the statistics handler is read-only on the statistics and the flag.
\* No step of a /stats handler, admitted or rejected, changes totalHashed,
\* totalHashingTime or the shutdown flag; an admitted one changes the
\* in-flight counter only by its increment (+1) and its decrement (-1), so
\* that once every /stats handler has returned the counter is the number of
\* /hash handlers in flight.
C20_StatsReadOnly ==
    /\ [][\A s \in StatsRequests :
            pc'[s] # pc[s] =>
                /\ UNCHANGED <<totalHashed, totalHashingTime, shutdownInProgress>>
                /\ numWorkingThreads' =
                     numWorkingThreads + (CASE pc[s] = "inc_add" -> 1
                                            [] pc[s] = "dec_add" -> 0 - 1
                                            [] OTHER -> 0)]_vars
    /\ []((\A s \in StatsRequests : pc[s] \in {"done", "rejected"}) =>
             numWorkingThreads = Cardinality({h \in Hashers : InFlight(h)}))

\* A statistics request has run to its end while a hash request is in flight.
C20_Witness ==
    \E s \in StatsRequests, h \in Hashers :
        pc[s] = "done" /\ InFlight(h) /\ numWorkingThreads = 1

====
